---- MODULE Spec2Model ----
(***************************************************************************)
(* Model of the LogParser frame extractor (src/log_parser.py): the         *)
(* FrameFormat configuration, the parser's buffer and statistics, the two  *)
(* parser operations process_data and find_next_frame, and the             *)
(* process_stream driver.  The input generators of                         *)
(* src/generate_test_data.py (create_frame, create_time_frame) build the   *)
(* inputs.  Bytes are integers 0..255; offsets are 0-based as in Python.   *)
(***************************************************************************)
EXTENDS Integers, Sequences, FiniteSets, TLC

VARIABLES fmt, pieces, tape, pos, buffer, stats, emitted, consumed, op, ret, data, pc,
          yielded, parsed

vars == <<fmt, pieces, tape, pos, buffer, stats, emitted, consumed, op, ret, data, pc,
          yielded, parsed>>

----------------------------------------------------------------------------
(* Bounds of the model *)

\* longest arbitrary byte string offered as input
MaxNoise == 5
\* widest length field given to parse_length
MaxLengthSize == 5
\* longest payload given to create_frame
MaxPayload == 2
\* longest input built by concatenating well-formed records
MaxTape == 12
\* largest chunk smaller than the whole remaining input
MaxChunk == 2

----------------------------------------------------------------------------
(* Python helpers *)

MinOf(S) == CHOOSE x \in S : \A y \in S : x <= y

\* s[a:b] for 0 <= a, 0 <= b
Slice(s, a, b) == SubSeq(s, a + 1, IF b < Len(s) THEN b ELSE Len(s))

\* s.find(sub, start): least offset >= start where sub occurs, or -1
Find(s, sub, start) ==
    LET C == {i \in start..(Len(s) - Len(sub)) : SubSeq(s, i + 1, i + Len(sub)) = sub}
    IN  IF C = {} THEN -1 ELSE MinOf(C)

RECURSIVE Pow2(_)
Pow2(n) == IF n = 0 THEN 1 ELSE 2 * Pow2(n - 1)

\* a shift kept in 16 bits
ShlTruncated(x, n) == (x * Pow2(n)) % 65536

\* x << n
Shl(x, n) == x * Pow2(n)

RECURSIVE BitOr(_, _)
\* a | b on non-negative integers of arbitrary width
BitOr(a, b) ==
    IF a = 0 THEN b
    ELSE IF b = 0 THEN a
    ELSE (IF a % 2 = 1 \/ b % 2 = 1 THEN 1 ELSE 0) + 2 * BitOr(a \div 2, b \div 2)

RECURSIVE Flatten(_)
\* b''.join(parts)
Flatten(parts) == IF parts = <<>> THEN <<>> ELSE Head(parts) \o Flatten(Tail(parts))

Reverse(s) == [i \in 1..Len(s) |-> s[Len(s) + 1 - i]]

----------------------------------------------------------------------------
(* FrameFormat *)

DEFAULT_FORMAT ==
    [FRAME_START |-> <<126>>, FRAME_END |-> <<126>>,
     LENGTH_FIELD_OFFSET |-> 1, LENGTH_FIELD_SIZE |-> 2,
     LENGTH_FIELD_BIG_ENDIAN |-> TRUE,
     TIME_MARKER |-> <<170, 170>>, TIME_FRAME_LENGTH |-> 8]

min_frame_size(f) == Len(f.FRAME_START) + f.LENGTH_FIELD_SIZE + Len(f.FRAME_END)

length_field_end(f) == f.LENGTH_FIELD_OFFSET + f.LENGTH_FIELD_SIZE

time_timestamp_size(f) == f.TIME_FRAME_LENGTH - Len(f.TIME_MARKER)

RECURSIVE Accumulate(_, _)
\* for byte in bs: result = (result << 8) | byte
Accumulate(result, bs) ==
    IF bs = <<>> THEN result
    ELSE Accumulate(BitOr(Shl(result, 8), Head(bs)), Tail(bs))

\* the outcome of a call: a value, or the exception it raises
Value(v) == [exc |-> "none", val |-> v]
Raises(e) == [exc |-> e, val |-> 0]

parse_length(f, length_bytes) ==
    IF f.LENGTH_FIELD_SIZE = 2 THEN
        IF Len(length_bytes) < 2 THEN Raises("IndexError")
        ELSE IF f.LENGTH_FIELD_BIG_ENDIAN
             THEN Value(BitOr(Shl(length_bytes[1], 8), length_bytes[2]))
             ELSE Value(BitOr(Shl(length_bytes[2], 8), length_bytes[1]))
    ELSE IF f.LENGTH_FIELD_SIZE = 4 THEN
        IF Len(length_bytes) < 4 THEN Raises("IndexError")
        ELSE IF f.LENGTH_FIELD_BIG_ENDIAN
             THEN Value(BitOr(BitOr(BitOr(Shl(length_bytes[1], 24), Shl(length_bytes[2], 16)),
                                    Shl(length_bytes[3], 8)), length_bytes[4]))
             ELSE Value(BitOr(BitOr(BitOr(Shl(length_bytes[4], 24), Shl(length_bytes[3], 16)),
                                    Shl(length_bytes[2], 8)), length_bytes[1]))
    ELSE IF f.LENGTH_FIELD_BIG_ENDIAN
         THEN Value(Accumulate(0, length_bytes))
         ELSE Value(Accumulate(0, Reverse(length_bytes)))

extract_length_field(f, d) ==
    IF Len(d) < length_field_end(f) THEN Raises("ValueError")
    ELSE parse_length(f, Slice(d, f.LENGTH_FIELD_OFFSET, length_field_end(f)))

----------------------------------------------------------------------------
(* LogParser *)

\* what a call hands back to its caller
None == [kind |-> "None", bytes |-> <<>>]
Record(b) == [kind |-> "record", bytes |-> b]
Raise(e) == [kind |-> "raise", bytes |-> <<>>]

InitStats ==
    [frames_found |-> 0, time_frames_found |-> 0, invalid_frames |-> 0, bytes_processed |-> 0]

\* the outcome of a step of find_next_frame on buffer b: what is left, the
\* statistics, the value returned
Outcome(b, st, r) == [buffer |-> b, stats |-> st, ret |-> r]

\* bytes_processed assigned, not accumulated
process_data_assign(buf, st, d) ==
    [buffer |-> buf \o d,
     stats |-> [st EXCEPT !.bytes_processed = Len(d)]]

\* the data put in front of the buffer
process_data_prepend(buf, st, d) ==
    [buffer |-> d \o buf,
     stats |-> [st EXCEPT !.bytes_processed = @ + Len(d)]]

process_data(buf, st, d) ==
    [buffer |-> buf \o d,
     stats |-> [st EXCEPT !.bytes_processed = @ + Len(d)]]

\* the choice that takes the time path whenever a time marker is buffered
FirstMarkerTimeFirst(f, buf) ==
    LET time_frame_idx == Find(buf, f.TIME_MARKER, 0)
        frame_start_idx == Find(buf, f.FRAME_START, 0)
    IN  IF time_frame_idx = -1 /\ frame_start_idx = -1 THEN [type |-> "none", idx |-> -1]
        ELSE IF time_frame_idx # -1 THEN [type |-> "time", idx |-> time_frame_idx]
             ELSE [type |-> "frame", idx |-> frame_start_idx]

\* the choice that takes the frame path whenever a frame start is buffered
FirstMarkerFrameFirst(f, buf) ==
    LET time_frame_idx == Find(buf, f.TIME_MARKER, 0)
        frame_start_idx == Find(buf, f.FRAME_START, 0)
    IN  IF time_frame_idx = -1 /\ frame_start_idx = -1 THEN [type |-> "none", idx |-> -1]
        ELSE IF frame_start_idx # -1 THEN [type |-> "frame", idx |-> frame_start_idx]
             ELSE [type |-> "time", idx |-> time_frame_idx]

\* the earliest marker in the buffer: ('time' | 'frame', offset), or no candidate
FirstMarker(f, buf) ==
    LET time_frame_idx == Find(buf, f.TIME_MARKER, 0)
        frame_start_idx == Find(buf, f.FRAME_START, 0)
    IN  IF time_frame_idx = -1 /\ frame_start_idx = -1 THEN [type |-> "none", idx |-> -1]
        ELSE IF time_frame_idx # -1 /\ (frame_start_idx = -1 \/ time_frame_idx <= frame_start_idx)
             THEN [type |-> "time", idx |-> time_frame_idx]
             ELSE [type |-> "frame", idx |-> frame_start_idx]

\* the drop leaving the last byte before the marker in the buffer
DropBeforeShort(buf, marker_idx) ==
    IF marker_idx > 0 THEN Slice(buf, marker_idx - 1, Len(buf)) ELSE buf

\* del self.buffer[:marker_idx]
DropBefore(buf, marker_idx) == IF marker_idx > 0 THEN Slice(buf, marker_idx, Len(buf)) ELSE buf

TimePath(f, b, st) ==
    IF Len(b) >= f.TIME_FRAME_LENGTH
    THEN Outcome(Slice(b, f.TIME_FRAME_LENGTH, Len(b)),
                 [st EXCEPT !.time_frames_found = @ + 1],
                 Record(Slice(b, 0, f.TIME_FRAME_LENGTH)))
    ELSE Outcome(b, st, None)

\* recovery returning the record without counting it
RecoverUncounted(f, b, st, start) ==
    LET end_idx == Find(b, f.FRAME_END, start)
        frame_end_idx == end_idx + Len(f.FRAME_END)
    IN  IF end_idx = -1 THEN Outcome(b, st, None)
        ELSE Outcome(Slice(b, frame_end_idx, Len(b)), st, Record(Slice(b, 0, frame_end_idx)))

\* the recovery search starting one byte too early
RecoverEarly(f, b, st, start) ==
    LET end_idx == Find(b, f.FRAME_END, start - 1)
        frame_end_idx == end_idx + Len(f.FRAME_END)
    IN  IF end_idx = -1 THEN Outcome(b, st, None)
        ELSE Outcome(Slice(b, frame_end_idx, Len(b)),
                     [st EXCEPT !.invalid_frames = @ + 1],
                     Record(Slice(b, 0, frame_end_idx)))

\* recovery counting the record in frames_found
RecoverAsFound(f, b, st, start) ==
    LET end_idx == Find(b, f.FRAME_END, start)
        frame_end_idx == end_idx + Len(f.FRAME_END)
    IN  IF end_idx = -1 THEN Outcome(b, st, None)
        ELSE Outcome(Slice(b, frame_end_idx, Len(b)),
                     [st EXCEPT !.frames_found = @ + 1],
                     Record(Slice(b, 0, frame_end_idx)))

\* recovery returning the bytes before the end marker only
RecoverWithoutEnd(f, b, st, start) ==
    LET end_idx == Find(b, f.FRAME_END, start)
    IN  IF end_idx = -1 THEN Outcome(b, st, None)
        ELSE Outcome(Slice(b, end_idx, Len(b)),
                     [st EXCEPT !.invalid_frames = @ + 1],
                     Record(Slice(b, 0, end_idx)))

\* recovery that waits for the declared length whatever the buffer holds
RecoverNever(f, b, st, start) == Outcome(b, st, None)

\* recovery that gives up when the first frame_end is not the last buffered byte
RecoverOnlyAtEnd(f, b, st, start) ==
    LET end_idx == Find(b, f.FRAME_END, start)
        frame_end_idx == end_idx + Len(f.FRAME_END)
    IN  IF end_idx = -1 \/ frame_end_idx # Len(b) THEN Outcome(b, st, None)
        ELSE Outcome(Slice(b, frame_end_idx, Len(b)),
                     [st EXCEPT !.invalid_frames = @ + 1],
                     Record(Slice(b, 0, frame_end_idx)))

\* search frame_end from offset start; emit the bytes up to and including it
Recover(f, b, st, start) ==
    LET end_idx == Find(b, f.FRAME_END, start)
        frame_end_idx == end_idx + Len(f.FRAME_END)
    IN  IF end_idx = -1 THEN Outcome(b, st, None)
        ELSE Outcome(Slice(b, frame_end_idx, Len(b)),
                     [st EXCEPT !.invalid_frames = @ + 1],
                     Record(Slice(b, 0, frame_end_idx)))

\* a handler that lets ValueError through
CaughtOnlyIndexError == {"IndexError"}

\* the exceptions the handler around extract_length_field catches
CaughtExceptions == {"ValueError", "IndexError"}

\* expected size computed without the end marker
ExpectedFrameSizeNoEnd(f, length) == length_field_end(f) + length

ExpectedFrameSize(f, length) == length_field_end(f) + length + Len(f.FRAME_END)

\* actual_end = bytes(self.buffer[frame_end_start:expected_frame_size])
ActualEnd(b, frame_end_start, expected_frame_size) ==
    Slice(b, frame_end_start, expected_frame_size)

FramePath(f, b, st) ==
    IF Len(b) < min_frame_size(f) THEN Outcome(b, st, None)
    ELSE LET r == extract_length_field(f, b) IN
         IF r.exc # "none" THEN
             IF r.exc \in CaughtExceptions
             THEN Recover(f, b, st, Len(f.FRAME_START))
             ELSE Outcome(b, st, Raise(r.exc))
         ELSE LET expected_frame_size == ExpectedFrameSize(f, r.val)
                  frame_end_start == expected_frame_size - Len(f.FRAME_END)
              IN  IF Len(b) < expected_frame_size
                  THEN Recover(f, b, st, length_field_end(f))
                  ELSE IF ActualEnd(b, frame_end_start, expected_frame_size) # f.FRAME_END
                  THEN Recover(f, b, st, length_field_end(f))
                  ELSE Outcome(Slice(b, expected_frame_size, Len(b)),
                               [st EXCEPT !.frames_found = @ + 1],
                               Record(Slice(b, 0, expected_frame_size)))

\* the buffer kept when no marker is found
NoCandidatesKeep(buf, st) == Outcome(buf, st, None)

\* if not candidates: self.buffer.clear(); return None
NoCandidates(buf, st) == Outcome(<<>>, st, None)

find_next_frame(f, buf, st) ==
    LET m == FirstMarker(f, buf) IN
    IF m.type = "none" THEN NoCandidates(buf, st)
    ELSE IF m.type = "time" THEN TimePath(f, DropBefore(buf, m.idx), st)
    ELSE FramePath(f, DropBefore(buf, m.idx), st)

RECURSIVE Drain(_, _, _, _)
\* call find_next_frame until it returns None, collecting the records
Drain(f, buf, st, acc) ==
    LET r == find_next_frame(f, buf, st) IN
    IF r.ret.kind = "record"
    THEN Drain(f, r.buffer, r.stats, Append(acc, r.ret.bytes))
    ELSE [buffer |-> r.buffer, stats |-> r.stats, records |-> acc, ret |-> r.ret]

\* one process_data call with the whole stream, then one drain
ParseWhole(f, stream) ==
    LET p == process_data(<<>>, InitStats, stream) IN Drain(f, p.buffer, p.stats, <<>>)


----------------------------------------------------------------------------
(* Input generators (generate_test_data.py) *)

RECURSIVE BytesBE(_, _)
\* the size low-order bytes of n, most significant first
BytesBE(n, size) ==
    IF size = 0 THEN <<>> ELSE BytesBE(n \div 256, size - 1) \o <<n % 256>>

\* the length field's bytes for a length
PackLength(f, length) ==
    LET be == BytesBE(length, f.LENGTH_FIELD_SIZE)
    IN  IF f.LENGTH_FIELD_BIG_ENDIAN THEN be ELSE Reverse(be)

Padding(f) ==
    IF f.LENGTH_FIELD_OFFSET > Len(f.FRAME_START)
    THEN [i \in 1..(f.LENGTH_FIELD_OFFSET - Len(f.FRAME_START)) |-> 0]
    ELSE <<>>

\* create_frame, with the value it writes in the length field
CreateFrame(f, payload, length) ==
    f.FRAME_START \o Padding(f) \o PackLength(f, length) \o payload \o f.FRAME_END

\* the lengths create_frame writes when length_field_correct is False
WrongLengths(payload) ==
    {IF Len(payload) - r > 0 THEN Len(payload) - r ELSE 0 : r \in 1..5}
        \cup {Len(payload) + r : r \in 1..5}

create_time_frame(f, timestamp) ==
    f.TIME_MARKER \o BytesBE(timestamp, time_timestamp_size(f))

----------------------------------------------------------------------------
(* The inputs offered to the parser *)

PayloadBytes == {65, 126, 170}
NoiseBytes == {0, 1, 126, 170}
TimeStamps == {1, 8257706}

SeqsUpTo(S, n) == UNION {[1..k -> S] : k \in 0..n}

Payloads == SeqsUpTo(PayloadBytes, MaxPayload)

Frames(f) == {CreateFrame(f, p, Len(p)) : p \in Payloads}
TimeFrames(f) == {create_time_frame(f, t) : t \in TimeStamps}
ValidRecords(f) == Frames(f) \cup TimeFrames(f)

RECURSIVE Concats(_, _)
\* the sequences of records of R whose concatenation has at most n bytes
Concats(R, n) ==
    {<<>>} \cup UNION {{<<r>> \o s : s \in Concats(R, n - Len(r))} : r \in {x \in R : Len(x) <= n}}

ValidInputs(f) == Concats(ValidRecords(f), MaxTape)

BadLengthFrames(f) ==
    UNION {{CreateFrame(f, p, l) : l \in WrongLengths(p)} : p \in Payloads}

\* a frame without its end marker (generate_test_data, incomplete_at_end)
IncompleteFrames(f) ==
    {Slice(fr, 0, Len(fr) - Len(f.FRAME_END)) : fr \in Frames(f)}

MalformedInputs(f) == {<<x>> : x \in BadLengthFrames(f) \cup IncompleteFrames(f)}

NoiseInputs == {<<t>> : t \in SeqsUpTo(NoiseBytes, MaxNoise) \ {<<>>}}

\* the concrete inputs of the documentation and of write_test_files
Scenarios ==
    { << <<126, 0, 5, 72, 101, 108, 108, 111, 126>> >>,
      << <<126, 0, 5, 72, 101, 108, 108, 111>> >>,
      << <<126, 255, 255, 65, 66, 126>> >>,
      << <<126, 0, 1, 0>>, <<170, 170, 0, 0, 0, 0, 0, 1>>, <<0, 1>> >>,
      << <<0>>, <<126, 0, 0, 126>>, <<1>>, <<170, 170, 0, 0, 0, 0, 0, 1>>,
         <<126, 0, 5, 65, 126>>, <<126, 0>> >>,
      << <<126, 0, 8, 72, 105>>, <<170, 170, 0, 0, 0, 0, 0, 1>>, <<126>> >> }

Inputs == ValidInputs(DEFAULT_FORMAT) \cup MalformedInputs(DEFAULT_FORMAT)
              \cup NoiseInputs \cup Scenarios

WellFormed(f, ps) == \A i \in 1..Len(ps) : ps[i] \in ValidRecords(f)

----------------------------------------------------------------------------
(* The state machine: direct calls of the parser *)

\* input_stream.read(4096)
READ_SIZE == 4096

ChunkSizes(remaining) == {n \in 1..remaining : n <= MaxChunk \/ n = remaining}

InitParser ==
    /\ tape = Flatten(pieces)
    /\ pos = 0
    /\ buffer = <<>>
    /\ stats = InitStats
    /\ emitted = <<>>
    /\ consumed = 0
    /\ op = "init"
    /\ ret = None
    /\ data = <<>>
    /\ yielded = <<>>
    /\ parsed = Value(0)

Init ==
    /\ fmt = DEFAULT_FORMAT
    /\ pieces \in Inputs
    /\ pc = "api"
    /\ InitParser

\* self.process_data(d), d the next n bytes of the input
CallProcessData(n) ==
    LET d == Slice(tape, pos, pos + n)
        p == process_data(buffer, stats, d)
    IN  /\ buffer' = p.buffer
        /\ stats' = p.stats
        /\ data' = d
        /\ pos' = pos + n
        /\ op' = "process_data"
        /\ ret' = None
        /\ UNCHANGED <<fmt, pieces, tape, emitted, consumed, parsed>>

\* self.find_next_frame(); emitted records the bytes returned and where in the
\* ingested stream they began
CallFindNextFrame ==
    LET m == FirstMarker(fmt, buffer)
        r == find_next_frame(fmt, buffer, stats)
    IN  /\ buffer' = r.buffer
        /\ stats' = r.stats
        /\ ret' = r.ret
        /\ op' = "find_next_frame"
        /\ consumed' = consumed + (Len(buffer) - Len(r.buffer))
        /\ emitted' = IF r.ret.kind = "record"
                      THEN Append(emitted, [bytes |-> r.ret.bytes, start |-> consumed + m.idx])
                      ELSE emitted
        /\ UNCHANGED <<fmt, pieces, tape, pos, data, parsed>>

ProcessData ==
    /\ pc = "api"
    /\ \E n \in ChunkSizes(Len(tape) - pos) : CallProcessData(n)
    /\ UNCHANGED <<pc, yielded>>

FindNextFrame ==
    /\ pc = "api"
    /\ CallFindNextFrame
    /\ UNCHANGED <<pc, yielded>>

Next == ProcessData \/ FindNextFrame

Spec == Init /\ [][Next]_vars


----------------------------------------------------------------------------
(* The state machine: process_stream driving the parser *)

InitStream ==
    /\ fmt = DEFAULT_FORMAT
    /\ pieces \in Inputs
    /\ pc = "read"
    /\ InitParser

\* data = input_stream.read(4096); if not data: break; self.process_data(data)
StreamRead ==
    /\ pc = "read"
    /\ IF pos = Len(tape)
       THEN /\ pc' = "final"
            /\ UNCHANGED <<fmt, pieces, tape, pos, buffer, stats, emitted, consumed, op, ret,
                           data, parsed>>
       ELSE /\ \E n \in ChunkSizes(Len(tape) - pos) : n <= READ_SIZE /\ CallProcessData(n)
            /\ pc' = "drain"
    /\ UNCHANGED yielded

\* a loop left after its first call, whatever it returned
AfterFindOnce(r, again, exit) ==
    IF r.kind = "raise" THEN "error" ELSE exit

\* a loop that does not break on None
AfterFindNoBreak(r, again, exit) ==
    IF r.kind = "raise" THEN "error" ELSE again

AfterFind(r, again, exit) ==
    IF r.kind = "record" THEN again ELSE IF r.kind = "raise" THEN "error" ELSE exit

\* yield frame, in the loop named
Yield(r, loop) ==
    IF r.kind = "record" THEN Append(yielded, [bytes |-> r.bytes, loop |-> loop]) ELSE yielded

\* the inner loop: frame = self.find_next_frame(); break on None, else yield
StreamDrain ==
    /\ pc = "drain"
    /\ CallFindNextFrame
    /\ pc' = AfterFind(ret', "drain", "read")
    /\ yielded' = Yield(ret', "drain")

\* the loop after the source is exhausted
StreamFinal ==
    /\ pc = "final"
    /\ CallFindNextFrame
    /\ pc' = AfterFind(ret', "final", "done")
    /\ yielded' = Yield(ret', "final")

NextStream == StreamRead \/ StreamDrain \/ StreamFinal

SpecStream == InitStream /\ [][NextStream]_vars

\* the inputs of the runs followed to their end: the documented scenarios, the
\* frames without end marker, and the single well-formed records
EndedInputs ==
    Scenarios \cup {<<x>> : x \in IncompleteFrames(DEFAULT_FORMAT)}
        \cup {<<x>> : x \in ValidRecords(DEFAULT_FORMAT)}

InitStreamEnded ==
    /\ fmt = DEFAULT_FORMAT
    /\ pieces \in EndedInputs
    /\ pc = "read"
    /\ InitParser

\* the generator is run to its end: the consumer keeps asking for the next record
SpecStreamFair == InitStreamEnded /\ [][NextStream]_vars /\ WF_vars(NextStream)

----------------------------------------------------------------------------
(* Parsers constructed with other frame formats *)

PADDED_FORMAT ==
    [FRAME_START |-> <<126>>, FRAME_END |-> <<126>>,
     LENGTH_FIELD_OFFSET |-> 3, LENGTH_FIELD_SIZE |-> 1,
     LENGTH_FIELD_BIG_ENDIAN |-> TRUE,
     TIME_MARKER |-> <<170, 170>>, TIME_FRAME_LENGTH |-> 4]

LITTLE_FORMAT ==
    [FRAME_START |-> <<126>>, FRAME_END |-> <<1>>,
     LENGTH_FIELD_OFFSET |-> 1, LENGTH_FIELD_SIZE |-> 2,
     LENGTH_FIELD_BIG_ENDIAN |-> FALSE,
     TIME_MARKER |-> <<170>>, TIME_FRAME_LENGTH |-> 3]

WIDE_FORMAT ==
    [FRAME_START |-> <<126, 126>>, FRAME_END |-> <<126>>,
     LENGTH_FIELD_OFFSET |-> 2, LENGTH_FIELD_SIZE |-> 3,
     LENGTH_FIELD_BIG_ENDIAN |-> TRUE,
     TIME_MARKER |-> <<170, 170>>, TIME_FRAME_LENGTH |-> 3]

Formats == {DEFAULT_FORMAT, PADDED_FORMAT, LITTLE_FORMAT, WIDE_FORMAT}

InitFmt ==
    /\ fmt \in Formats
    /\ pieces \in NoiseInputs \cup {<<x>> : x \in Frames(fmt)}
    /\ pc = "api"
    /\ InitParser

SpecFmt == InitFmt /\ [][Next]_vars


----------------------------------------------------------------------------
(* Construction of a parser with a given frame format *)

\* formats whose time record has no room for a timestamp
MARKER_ONLY_FORMAT == [DEFAULT_FORMAT EXCEPT !.TIME_FRAME_LENGTH = 2]
SHORT_TIME_FORMAT == [DEFAULT_FORMAT EXCEPT !.TIME_FRAME_LENGTH = 1]

ConfigFormats == {DEFAULT_FORMAT, PADDED_FORMAT, MARKER_ONLY_FORMAT, SHORT_TIME_FORMAT}

\* LogParser.__init__(frame_format): the object built, and the error raised if any
NewParser(frame_format) ==
    [frame_format |-> frame_format, buffer |-> <<>>, stats |-> InitStats, error |-> "none"]

InitConfig ==
    /\ fmt = DEFAULT_FORMAT
    /\ pieces \in Scenarios \cup {<<x>> : x \in ValidRecords(DEFAULT_FORMAT)}
    /\ pc = "new"
    /\ InitParser

Construct ==
    /\ pc = "new"
    /\ \E f \in ConfigFormats :
         LET p == NewParser(f) IN
         /\ fmt' = p.frame_format
         /\ buffer' = p.buffer
         /\ stats' = p.stats
         /\ pc' = IF p.error = "none" THEN "api" ELSE "rejected"
    /\ op' = "init"
    /\ UNCHANGED <<pieces, tape, pos, emitted, consumed, ret, data, yielded, parsed>>

NextConfig == Construct \/ ProcessData \/ FindNextFrame

SpecConfig == InitConfig /\ [][NextConfig]_vars

----------------------------------------------------------------------------
(* FrameFormat.parse_length called on its own *)

LengthFormats ==
    {[DEFAULT_FORMAT EXCEPT !.LENGTH_FIELD_SIZE = n, !.LENGTH_FIELD_BIG_ENDIAN = e] :
        n \in 1..MaxLengthSize, e \in BOOLEAN}

LengthBytes == {0, 1, 126, 255}

\* the byte of bs with weight 256^k
ByteOfWeight(f, bs, k) == IF f.LENGTH_FIELD_BIG_ENDIAN THEN bs[Len(bs) - k] ELSE bs[k + 1]

\* the byte strings of the configured size whose value the checker's integers
\* hold (below 2^31)
LengthInputs(f) ==
    {bs \in [1..f.LENGTH_FIELD_SIZE -> LengthBytes] :
        \A k \in 0..(Len(bs) - 1) :
            /\ k = 3 => ByteOfWeight(f, bs, k) < 128
            /\ k > 3 => ByteOfWeight(f, bs, k) = 0}

InitLength ==
    /\ fmt \in LengthFormats
    /\ pieces = <<>>
    /\ pc = "length"
    /\ InitParser

\* fmt.parse_length(length_bytes)
ParseLength ==
    /\ pc = "length"
    /\ \E bs \in LengthInputs(fmt) :
         /\ data' = bs
         /\ parsed' = parse_length(fmt, bs)
    /\ op' = "parse_length"
    /\ UNCHANGED <<fmt, pieces, tape, pos, buffer, stats, emitted, consumed, ret, pc, yielded>>

NextLength == ParseLength

SpecLength == InitLength /\ [][NextLength]_vars

----------------------------------------------------------------------------
(* Properties *)

EmittedBytes == [i \in 1..Len(emitted) |-> emitted[i].bytes]

\* the find_next_frame call just made returned None
ReturnedNone == op = "find_next_frame" /\ ret = None

\* the find_next_frame call just made returned a record
ReturnedRecord == op = "find_next_frame" /\ ret.kind = "record"

\* the bytes ingested so far
Ingested == Slice(tape, 0, pos)

\* C1: for a stream of well-formed records, reading it in chunks and draining
\* after each chunk emits the same records as one process_data call with the
\* whole stream followed by one drain.
C1_ChunkInvariance ==
    (pc = "done" /\ WellFormed(fmt, pieces))
        => EmittedBytes = ParseWhole(fmt, tape).records

\* C2: a gap-free concatenation of well-formed frames and time records, ingested
\* in one call and drained, is emitted record by record, in order and byte for
\* byte, with invalid_frames = 0 and frames_found + time_frames_found the
\* number of input records.
C2_WellFormedReproduced ==
    (ReturnedNone /\ tape # <<>> /\ data = tape /\ WellFormed(fmt, pieces))
        => /\ EmittedBytes = pieces
           /\ stats.invalid_frames = 0
           /\ stats.frames_found + stats.time_frames_found = Len(pieces)

C2_Witness ==
    /\ ReturnedNone /\ data = tape /\ WellFormed(fmt, pieces)
    /\ Len(pieces) >= 2
    /\ \E i \in 1..Len(pieces) : pieces[i] = CreateFrame(fmt, <<>>, 0)
    /\ \E i \in 1..Len(pieces) : pieces[i] \in TimeFrames(fmt)
    /\ EmittedBytes = pieces

\* the buffer starts with a frame whose length field can be read
HeadFrame(f, b) ==
    /\ Slice(b, 0, Len(f.FRAME_START)) = f.FRAME_START
    /\ Len(b) >= length_field_end(f)

DeclaredSize(f, b) == ExpectedFrameSize(f, extract_length_field(f, b).val)

\* C3: when find_next_frame is called on a buffer that starts with a frame
\* whose declared length exceeds the buffered data and a frame_end occurs at or
\* after offset length_field_end, it returns the bytes from the frame start up
\* to and including the first such frame_end, adds 1 to invalid_frames and
\* leaves frames_found unchanged.
C3_OverlongRecovered ==
    [][(/\ op' = "find_next_frame"
        /\ HeadFrame(fmt, buffer)
        /\ DeclaredSize(fmt, buffer) > Len(buffer)
        /\ Find(buffer, fmt.FRAME_END, length_field_end(fmt)) # -1)
       => LET e == Find(buffer, fmt.FRAME_END, length_field_end(fmt)) IN
          /\ ret' = Record(Slice(buffer, 0, e + Len(fmt.FRAME_END)))
          /\ stats'.invalid_frames = stats.invalid_frames + 1
          /\ stats'.frames_found = stats.frames_found]_vars

C3_Witness ==
    /\ ReturnedRecord
    /\ buffer = <<>>
    /\ HeadFrame(fmt, ret.bytes)
    /\ DeclaredSize(fmt, ret.bytes) > Len(ret.bytes)
    /\ stats.invalid_frames = 1

\* a frame whose length field is smaller than its payload, the payload free of
\* frame_end
ShortLengthFrame(f, p) ==
    \E payload \in Payloads :
        /\ Find(payload, f.FRAME_END, 0) = -1
        /\ \E l \in 0..(Len(payload) - 1) : p = CreateFrame(f, payload, l)

\* C4: a frame whose length field is smaller than its payload (the byte at the
\* declared end is not frame_end, the payload holds no frame_end) is emitted in
\* full, counted in invalid_frames and not in frames_found, in whatever chunks
\* it arrived.
C4_ShortLengthRecovered ==
    (ReturnedNone /\ pos = Len(tape) /\ Len(pieces) = 1 /\ ShortLengthFrame(fmt, pieces[1]))
        => /\ EmittedBytes = pieces
           /\ stats.invalid_frames = 1
           /\ stats.frames_found = 0

C4_Witness ==
    /\ ReturnedNone /\ pos = Len(tape) /\ Len(pieces) = 1 /\ ShortLengthFrame(fmt, pieces[1])
    /\ data # tape
    /\ EmittedBytes = pieces
    /\ stats.invalid_frames = 1


\* neither frame_start nor time_marker occurs in s
NoMarkerIn(f, s) == Find(s, f.FRAME_START, 0) = -1 /\ Find(s, f.TIME_MARKER, 0) = -1

\* the call made nothing but return None and empty the buffer
NothingFound ==
    /\ ret' = None
    /\ emitted' = emitted
    /\ buffer' = <<>>
    /\ stats'.frames_found = stats.frames_found
    /\ stats'.time_frames_found = stats.time_frames_found
    /\ stats'.invalid_frames = stats.invalid_frames

\* C5 as stated: after ingesting any byte string holding neither marker,
\* find_next_frame returns None, emits nothing, leaves the buffer empty and the
\* three record counters as they were.
C5_NoMarkerDiscarded ==
    [][(op = "process_data" /\ NoMarkerIn(fmt, data) /\ op' = "find_next_frame")
       => NothingFound]_vars

\* C5 amended: the same, when the buffer the byte string was appended to held
\* no marker either, so that the whole buffer holds neither marker.
C5_NoMarkerBufferDiscarded ==
    [][(/\ op = "process_data" /\ NoMarkerIn(fmt, data) /\ op' = "find_next_frame"
        /\ NoMarkerIn(fmt, buffer))
       => NothingFound]_vars

C5_Witness ==
    /\ ReturnedNone
    /\ buffer = <<>>
    /\ data # <<>> /\ NoMarkerIn(fmt, Ingested)
    /\ consumed = pos
    /\ Len(data) < pos

\* C6: while the buffer begins with frame_start and holds no frame_end at or
\* after offset length_field_end, find_next_frame returns None and emits
\* nothing; the input 7E 00 05 48 65 6C 6C 6F, wholly ingested, gives no record,
\* bytes_processed = 8 and the other counters 0.
C6_NoEndNeverEmitted ==
    /\ [][(/\ op' = "find_next_frame"
           /\ Slice(buffer, 0, Len(fmt.FRAME_START)) = fmt.FRAME_START
           /\ Find(buffer, fmt.FRAME_END, length_field_end(fmt)) = -1)
          => (ret' = None /\ emitted' = emitted /\ buffer' = buffer /\ stats' = stats)]_vars
    /\ [](tape = <<126, 0, 5, 72, 101, 108, 108, 111>> /\ pos = Len(tape)
            => /\ emitted = <<>>
               /\ stats = [InitStats EXCEPT !.bytes_processed = 8])

C6_Witness ==
    /\ ReturnedNone
    /\ Slice(buffer, 0, Len(fmt.FRAME_START)) = fmt.FRAME_START
    /\ Find(buffer, fmt.FRAME_END, length_field_end(fmt)) = -1
    /\ Find(buffer, fmt.TIME_MARKER, 0) # -1
    /\ Len(buffer) > DeclaredSize(fmt, buffer) + fmt.TIME_FRAME_LENGTH
    /\ emitted = <<>>

\* C7: no call of find_next_frame ends by raising: each returns a record or
\* None.
C7_NeverRaises == ret.kind # "raise"

\* the handler was entered: a record shorter than a frame header came out
C7_Witness ==
    /\ ReturnedRecord
    /\ Slice(ret.bytes, 0, Len(fmt.FRAME_START)) = fmt.FRAME_START
    /\ Len(ret.bytes) < length_field_end(fmt)

\* C8: the buffer is the suffix of the ingested bytes that starts at offset
\* consumed; the emitted records are slices of the ingested bytes, one after
\* the other in increasing offsets without overlap, all before the buffer.
C8_ConsumedNeverReturns ==
    /\ consumed <= pos
    /\ buffer = Slice(Ingested, consumed, pos)
    /\ \A i \in 1..Len(emitted) :
         /\ emitted[i].start >= 0
         /\ emitted[i].bytes = Slice(Ingested, emitted[i].start,
                                     emitted[i].start + Len(emitted[i].bytes))
         /\ emitted[i].start + Len(emitted[i].bytes) <= consumed
         /\ i > 1 => emitted[i - 1].start + Len(emitted[i - 1].bytes) <= emitted[i].start

C8_Witness ==
    /\ Len(emitted) >= 2
    /\ emitted[1].start > 0
    /\ emitted[2].start > emitted[1].start + Len(emitted[1].bytes)
    /\ buffer # <<>>

Counters == {"frames_found", "time_frames_found", "invalid_frames", "bytes_processed"}

\* C9: the four counters start at 0 and no call ever decreases one.
C9_CountersMonotone ==
    /\ \A c \in Counters : stats[c] = 0
    /\ [][\A c \in Counters : stats'[c] >= stats[c]]_vars

C9_Witness ==
    /\ stats.frames_found > 0 /\ stats.time_frames_found > 0
    /\ stats.invalid_frames > 0 /\ stats.bytes_processed > 0
    /\ op = "process_data"

\* C10: process_data appends its argument to the buffer and adds its length to
\* bytes_processed, emitting nothing and changing no other counter;
\* find_next_frame leaves bytes_processed alone; so bytes_processed is the
\* number of bytes ingested.
C10_ProcessDataFrame ==
    /\ [][/\ op' = "process_data"
             => /\ buffer' = buffer \o data'
                /\ Len(data') = pos' - pos
                /\ stats' = [stats EXCEPT !.bytes_processed = @ + Len(data')]
                /\ emitted' = emitted
                /\ consumed' = consumed
          /\ op' = "find_next_frame"
             => stats'.bytes_processed = stats.bytes_processed]_vars
    /\ [](stats.bytes_processed = pos)

C10_Witness ==
    /\ op = "process_data"
    /\ Len(buffer) > Len(data)
    /\ emitted # <<>>
    /\ stats.bytes_processed = pos


YieldedBytes == [i \in 1..Len(yielded) |-> yielded[i].bytes]

\* C11: over a source of finitely many chunks process_stream comes to its end;
\* every record find_next_frame returns takes at least one byte out of the
\* buffer; and what the generator has yielded is, in order, what
\* find_next_frame returned.
C11_StreamTerminates ==
    /\ <>(pc = "done")
    /\ [][(op' = "find_next_frame" /\ ret'.kind = "record")
          => Len(buffer') < Len(buffer)]_vars
    /\ [](YieldedBytes = EmittedBytes)

C11_Witness ==
    /\ pc = "done"
    /\ Len(yielded) >= 2
    /\ data # tape
    /\ YieldedBytes = EmittedBytes


\* a configuration the data model excludes
InvalidFormat(f) ==
    \/ f.TIME_FRAME_LENGTH <= Len(f.TIME_MARKER)
    \/ f.LENGTH_FIELD_SIZE < 1

\* C12: a parser is never in use with an invalid frame format: construction
\* with one fails.
C12_InvalidFormatRejected == InvalidFormat(fmt) => pc # "api"


RECURSIVE WeightedSum(_, _, _)
\* the sum of the bytes of weight 256^k and above, each times its weight
WeightedSum(f, bs, k) ==
    IF k >= Len(bs) THEN 0
    ELSE (IF ByteOfWeight(f, bs, k) = 0 THEN 0 ELSE ByteOfWeight(f, bs, k) * Pow2(8 * k))
             + WeightedSum(f, bs, k + 1)

\* the byte-by-byte accumulation, whatever the size
GenericLength(f, bs) ==
    Accumulate(0, IF f.LENGTH_FIELD_BIG_ENDIAN THEN bs ELSE Reverse(bs))

\* C13: for every length field size and byte string of that size, parse_length
\* returns the sum of b[i]*256^(N-1-i) (big-endian) or of b[i]*256^i
\* (little-endian), untruncated, and the branches for sizes 2 and 4 give what
\* the byte-by-byte accumulation gives.
C13_ParseLengthValue ==
    op = "parse_length"
        => /\ parsed = Value(WeightedSum(fmt, data, 0))
           /\ parsed.val = GenericLength(fmt, data)

C13_Witness ==
    /\ op = "parse_length"
    /\ fmt.LENGTH_FIELD_SIZE = 4 /\ ~fmt.LENGTH_FIELD_BIG_ENDIAN
    /\ data = <<1, 0, 255, 126>>
    /\ parsed = Value(2130640897)


\* the frame declaring 65535 bytes that holds two
MaxLengthScenario == <<126, 255, 255, 65, 66, 126>>

\* C14: the input 7E FF FF 41 42 7E, ingested and drained, gives one record,
\* the six input bytes, which the search from offset 3 ends at offset 5;
\* invalid_frames = 1, frames_found = 0 and the buffer is empty.
C14_MaxLengthRecovered ==
    (ReturnedNone /\ tape = MaxLengthScenario /\ pos = Len(tape))
        => /\ emitted = <<[bytes |-> tape, start |-> 0]>>
           /\ length_field_end(fmt) = 3
           /\ Find(tape, fmt.FRAME_END, length_field_end(fmt)) = 5
           /\ stats.invalid_frames = 1
           /\ stats.frames_found = 0
           /\ stats.time_frames_found = 0
           /\ buffer = <<>>

C14_Witness ==
    /\ ReturnedNone /\ tape = MaxLengthScenario /\ pos = Len(tape)
    /\ emitted = <<[bytes |-> tape, start |-> 0]>>
    /\ stats.invalid_frames = 1


\* C15 as stated: for the input 7E FF FF 41 42 7E process_stream yields no
\* record before the source has returned end-of-data: whatever is yielded is
\* yielded by the loop that follows the exhausted read.
C15_NothingBeforeEndOfData ==
    tape = MaxLengthScenario
        => \A i \in 1..Len(yielded) : yielded[i].loop = "final"

\* C15 amended: nothing is yielded while the closing 7E has not been read; the
\* drain loop that follows the read delivering it yields the six bytes as one
\* record, before the source returns end-of-data, and nothing else is yielded.
C15_YieldedOnClosingByte ==
    tape = MaxLengthScenario
        => /\ pos < Len(tape) => yielded = <<>>
           /\ yielded # <<>> => yielded = <<[bytes |-> tape, loop |-> "drain"]>>
           /\ (pos = Len(tape) /\ pc \in {"read", "final", "done"}) => yielded # <<>>

C15_Witness ==
    /\ tape = MaxLengthScenario
    /\ pc = "read" /\ pos = Len(tape)
    /\ data # tape
    /\ yielded = <<[bytes |-> tape, loop |-> "drain"]>>


\* the bytes of the tape not yet ingested: the continuation of the stream
Continuation == Slice(tape, pos, Len(tape))

\* C16: when find_next_frame discards the buffer because it holds neither
\* marker, the records obtained from the continuation of the stream are the
\* records that the discarded bytes followed by the continuation give when
\* ingested together.
C16_DiscardLosesNothing ==
    [][(op' = "find_next_frame" /\ buffer # <<>> /\ NoMarkerIn(fmt, buffer))
          => /\ buffer' = <<>>
             /\ ParseWhole(fmt, buffer' \o Continuation).records
                    = ParseWhole(fmt, buffer \o Continuation).records]_vars


\* the find_next_frame step just taken returned a record counted as invalid:
\* a record produced by recovery
Recovered ==
    /\ op' = "find_next_frame" /\ ret'.kind = "record"
    /\ stats'.invalid_frames = stats.invalid_frames + 1

\* C17: every record produced by recovery is at least
\* length_field_end + len(frame_end) bytes long.
C17_RecoveredLength ==
    [][Recovered => Len(ret'.bytes) >= length_field_end(fmt) + Len(fmt.FRAME_END)]_vars


\* s begins with the bytes p
BeginsWith(s, p) == Len(s) >= Len(p) /\ Slice(s, 0, Len(p)) = p

\* s ends with the bytes p
EndsWith(s, p) == Len(s) >= Len(p) /\ Slice(s, Len(s) - Len(p), Len(s)) = p

\* the shape of a time record
TimeShaped(f, r) == BeginsWith(r, f.TIME_MARKER) /\ Len(r) = f.TIME_FRAME_LENGTH

\* the shape of a frame, well-formed or recovered
FrameShaped(f, r) == BeginsWith(r, f.FRAME_START) /\ EndsWith(r, f.FRAME_END)

\* C18: every record find_next_frame returns begins with time_marker and has
\* exactly time_record_length bytes, or begins with frame_start and ends with
\* frame_end.
C18_RecordShape ==
    ReturnedRecord => TimeShaped(fmt, ret.bytes) \/ FrameShaped(fmt, ret.bytes)

C18_Witness ==
    /\ ReturnedRecord /\ FrameShaped(fmt, ret.bytes) /\ ~TimeShaped(fmt, ret.bytes)
    /\ fmt # DEFAULT_FORMAT
    /\ stats.invalid_frames > 0
    /\ emitted[Len(emitted)].bytes = ret.bytes


\* the offset of the earliest time_marker precedes that of the earliest
\* frame_start
TimeMarkerFirst(f, b) ==
    LET t == Find(b, f.TIME_MARKER, 0)
        s == Find(b, f.FRAME_START, 0)
    IN  t # -1 /\ (s = -1 \/ t < s)

\* the smaller starting offset of the two markers in b
EarliestOffset(f, b) ==
    LET t == Find(b, f.TIME_MARKER, 0)
        s == Find(b, f.FRAME_START, 0)
    IN  IF TimeMarkerFirst(f, b) THEN t ELSE s

\* C19: when a marker occurs in the buffer, find_next_frame takes the path of
\* the marker with the smaller offset (the time path iff the earliest
\* time_marker precedes the earliest frame_start), removes every byte before
\* that offset, whether it returns a record or None, and the record it returns
\* starts at that offset.
C19_EarliestMarkerPath ==
    [][(op' = "find_next_frame" /\ ~NoMarkerIn(fmt, buffer))
          => LET off == EarliestOffset(fmt, buffer)
                 n == Len(ret'.bytes)
             IN  /\ buffer' = Slice(buffer, off + n, Len(buffer))
                 /\ ret'.bytes = Slice(buffer, off, off + n)
                 /\ consumed' = consumed + off + n
                 /\ IF TimeMarkerFirst(fmt, buffer)
                    THEN /\ stats'.frames_found = stats.frames_found
                         /\ stats'.invalid_frames = stats.invalid_frames
                         /\ ret'.kind = "record" <=> Len(buffer) - off >= fmt.TIME_FRAME_LENGTH
                         /\ ret'.kind = "record"
                               => /\ n = fmt.TIME_FRAME_LENGTH
                                  /\ stats'.time_frames_found = stats.time_frames_found + 1
                    ELSE /\ stats'.time_frames_found = stats.time_frames_found
                         /\ ret'.kind = "record"
                               => stats'.frames_found + stats'.invalid_frames
                                      = stats.frames_found + stats.invalid_frames + 1]_vars

C19_Witness ==
    /\ ReturnedNone
    /\ emitted = <<>> /\ consumed > 0
    /\ BeginsWith(buffer, fmt.TIME_MARKER)
    /\ Find(buffer, fmt.FRAME_START, 0) > 0


\* the buffer passes the minimum-size check of the frame path
PassesMinSizeCheck(f, b) == BeginsWith(b, f.FRAME_START) /\ Len(b) >= min_frame_size(f)

\* C20: for every format min_frame_size is
\* length_field_offset + length_field_size + len(frame_end), so a buffer that
\* passes the minimum-size check holds the whole length field.
C20_MinFrameSize ==
    /\ min_frame_size(fmt) = fmt.LENGTH_FIELD_OFFSET + fmt.LENGTH_FIELD_SIZE + Len(fmt.FRAME_END)
    /\ PassesMinSizeCheck(fmt, buffer) => Len(buffer) >= length_field_end(fmt)


\* the payloads that hold the time marker and no frame end
MarkerPayloads(f) ==
    {p \in Payloads : Find(p, f.TIME_MARKER, 0) # -1 /\ Find(p, f.FRAME_END, 0) = -1}

\* the input is one well-formed frame with such a payload
MarkerInPayload ==
    /\ Len(pieces) = 1
    /\ \E p \in MarkerPayloads(fmt) : pieces[1] = CreateFrame(fmt, p, Len(p))

\* C21: a well-formed frame whose payload holds the time_marker bytes and no
\* frame_end byte is emitted, however the input is cut into chunks, as one
\* well-formed frame equal to the input: no time record is ever taken out of
\* the payload, and at the end frames_found = 1 and invalid_frames = 0.
C21_MarkerInPayload ==
    MarkerInPayload
        => /\ stats.time_frames_found = 0
           /\ stats.invalid_frames = 0
           /\ \A i \in 1..Len(yielded) : yielded[i].bytes = tape
           /\ pc = "done" => /\ YieldedBytes = <<tape>>
                             /\ stats.frames_found = 1

C21_Witness ==
    /\ pc = "done"
    /\ MarkerInPayload
    /\ data # tape /\ Len(data) < Len(fmt.TIME_MARKER)
    /\ YieldedBytes = <<tape>>
    /\ stats.frames_found = 1


\* the three counters of emitted records
RecordCounters == {"frames_found", "time_frames_found", "invalid_frames"}

\* the number of records counted
Counted(st) == st.frames_found + st.time_frames_found + st.invalid_frames

\* C22: a find_next_frame call that returns a record adds 1 to exactly one of
\* frames_found, time_frames_found, invalid_frames and leaves the others alone;
\* a call that returns None changes no counter; so the three counters always
\* add up to the number of records emitted so far.
C22_OneCounterPerRecord ==
    /\ [][op' = "find_next_frame"
             => IF ret'.kind = "record"
                THEN /\ \E c \in RecordCounters :
                           /\ stats'[c] = stats[c] + 1
                           /\ \A d \in Counters \ {c} : stats'[d] = stats[d]
                     /\ Len(emitted') = Len(emitted) + 1
                ELSE /\ ret' = None
                     /\ stats' = stats
                     /\ emitted' = emitted]_vars
    /\ [](Counted(stats) = Len(emitted))

C22_Witness ==
    /\ ReturnedRecord
    /\ stats.frames_found > 0 /\ stats.time_frames_found > 0 /\ stats.invalid_frames > 0
    /\ Counted(stats) = Len(emitted)


\* what find_next_frame would do if called now, with no process_data in between
CalledAgain == find_next_frame(fmt, buffer, stats)

\* C23: once find_next_frame has returned None the buffer is empty or begins
\* with time_marker or frame_start, and calling find_next_frame again with no
\* process_data in between returns None again and changes neither the buffer
\* nor any counter.
C23_NoneIsStable ==
    ReturnedNone
        => /\ \/ buffer = <<>>
              \/ BeginsWith(buffer, fmt.TIME_MARKER)
              \/ BeginsWith(buffer, fmt.FRAME_START)
           /\ CalledAgain.ret = None
           /\ CalledAgain.buffer = buffer
           /\ CalledAgain.stats = stats

C23_Witness ==
    /\ ReturnedNone
    /\ BeginsWith(buffer, fmt.FRAME_START)
    /\ Len(buffer) >= min_frame_size(fmt)
    /\ Find(buffer, fmt.TIME_MARKER, 0) > 0
    /\ consumed > 0 /\ emitted # <<>>
    /\ CalledAgain = Outcome(buffer, stats, None)


\* C24: the loop of process_stream that runs after the source is exhausted
\* never yields a record: every record is yielded by the drain loop that
\* follows a read, and when the final loop starts find_next_frame has nothing
\* to return, so what has been yielded is the same with or without that loop.
C24_FinalLoopYieldsNothing ==
    /\ \A i \in 1..Len(yielded) : yielded[i].loop = "drain"
    /\ pc = "final" => CalledAgain.ret = None

C24_Witness ==
    /\ pc = "done" /\ op = "find_next_frame"
    /\ buffer # <<>>
    /\ Len(yielded) >= 1
    /\ \A i \in 1..Len(yielded) : yielded[i].loop = "drain"

====
